---- MODULE Spec2Model ----
(***************************************************************************)
(* Dual-channel state synchronisation client of smart_box                  *)
(* (frontend/src/ui/App.tsx): a WebSocket push feed and a periodic         *)
(* GET /state poll both write a full snapshot of the cells into the React  *)
(* state (cells, rawMessage), gated by loggedIn.                           *)
(*                                                                         *)
(* JavaScript values are tagged records, so that values of different types *)
(* can be compared as the code compares them with === :                    *)
(*   [t |-> "undefined"], [t |-> "null"], [t |-> "string", v |-> s],       *)
(*   [t |-> "number", v |-> n], [t |-> "object", f |-> key :> value ...]   *)
(* The cell names of the source are written Door_1 .. Door_12 and the      *)
(* foreign name Camera_1 stands for any key outside CELL_NAMES.            *)
(***************************************************************************)
EXTENDS Integers, Sequences, FiniteSets, TLC

VARIABLES
    loggedIn,      \* useState<boolean>(true)
    cells,         \* useState<CellMap>: the Store's snapshot
    rawMessage,    \* useState<string | null>: the Diagnostic
    reconnectRef,  \* reconnectRef.current: handle of the last setTimeout, 0 = null
    pollRef,       \* pollRef.current: handle of the last setInterval, 0 = null
    session,       \* number of runs of the effects with loggedIn true
    isMounted,     \* the isMounted variable of each run of the push effect
    socket,        \* the socket variable of each run of the push effect, 0 = null
    sockets,       \* every WebSocket created so far: owning run and readyState
    timers,        \* handles of the pending reconnect timeouts
    intervals,     \* handles of the active poll intervals
    inflight,      \* fetch requests not yet settled, in order of issue
    lastEvent      \* history: the callback that took the last step and its input

vars == <<loggedIn, cells, rawMessage, reconnectRef, pollRef, session, isMounted,
          socket, sockets, timers, intervals, inflight, lastEvent>>

(***************************************************************************)
(* Bounds of the model.                                                    *)
(***************************************************************************)
MaxSessions == 2
MaxSockets == 2
MaxInFlight == 2

Sessions == 1..MaxSessions

(***************************************************************************)
(* JavaScript values.                                                      *)
(***************************************************************************)
Undefined == [t |-> "undefined"]
Null == [t |-> "null"]
Str(s) == [t |-> "string", v |-> s]
Num(n) == [t |-> "number", v |-> n]
Obj(fields) == [t |-> "object", f |-> fields]
NoFields == [k \in {} |-> Undefined]

\* if (x): undefined, null, "" and 0 are falsy
Truthy(x) ==
    CASE x.t = "undefined" -> FALSE
      [] x.t = "null" -> FALSE
      [] x.t = "string" -> x.v # ""
      [] x.t = "number" -> x.v # 0
      [] OTHER -> TRUE

\* x.k on a value that is neither null nor undefined
Get(x, k) == IF x.t = "object" /\ k \in DOMAIN x.f THEN x.f[k] ELSE Undefined

\* x?.k
OptGet(x, k) == IF x.t \in {"undefined", "null"} THEN Undefined ELSE Get(x, k)

\* x ?? null
Coalesce(x) == IF x.t \in {"undefined", "null"} THEN Null ELSE x

\* Object.entries(x): the own properties of an object, none for a number
Entries(x) == IF x.t = "object" THEN x.f ELSE NoFields

\* x === "s"
IsStr(x, s) == x.t = "string" /\ x.v = s

(***************************************************************************)
(* The Store: CELL_NAMES, createDefaultState, normalizeCells.              *)
(***************************************************************************)
CELL_NAMES == <<"Door_1", "Door_2", "Door_3", "Door_4", "Door_5", "Door_6",
                "Door_7", "Door_8", "Door_9", "Door_10", "Door_11", "Door_12">>

\* (CELL_NAMES as readonly string[]).includes(name)
includes(names, name) == \E i \in DOMAIN names : names[i] = name

createDefaultState ==
    [name \in {CELL_NAMES[i] : i \in DOMAIN CELL_NAMES} |->
        [door |-> "unknown", cycle |-> "unknown"]]

\* Mutant of doorOf: the door is read leniently (trimmed, any case, bare value).
doorOf_lenient(value) ==
    LET doorState == IF value.t = "object" THEN Get(value, "door") ELSE value
    IN  IF doorState.t = "string" /\ doorState.v \in {"open", " open ", "OPEN"}
        THEN "open"
        ELSE IF doorState.t = "string" /\ doorState.v \in {"closed", "closed ", "Closed"}
             THEN "closed"
             ELSE "unknown"

\* Mutant of doorOf: a bare value is read as the door, as the door-only variant did.
doorOf_legacy(value) ==
    LET doorState == IF value.t = "object" THEN Get(value, "door") ELSE value
    IN  IF IsStr(doorState, "open") THEN "open"
        ELSE IF IsStr(doorState, "closed") THEN "closed"
        ELSE "unknown"

doorOf(value) ==
    LET doorState == IF value.t = "object" THEN Get(value, "door") ELSE Undefined
    IN  IF IsStr(doorState, "open") THEN "open"
        ELSE IF IsStr(doorState, "closed") THEN "closed"
        ELSE "unknown"

\* Mutant of cycleOf: the cycle is read from the door field.
cycleOf_fromDoor(value) ==
    LET cycleState == IF value.t = "object" THEN Get(value, "door") ELSE Undefined
    IN  IF IsStr(cycleState, "taken") THEN "taken"
        ELSE IF IsStr(cycleState, "returned") THEN "returned"
        ELSE "unknown"

cycleOf(value) ==
    LET cycleState == IF value.t = "object" THEN Get(value, "cycle") ELSE Undefined
    IN  IF IsStr(cycleState, "taken") THEN "taken"
        ELSE IF IsStr(cycleState, "returned") THEN "returned"
        ELSE "unknown"

\* Mutant of normalizeCells: the includes(name) test is missing.
normalizeCells_anyKey(incoming) ==
    LET next == createDefaultState
        entries == IF Truthy(incoming) THEN Entries(incoming) ELSE NoFields
    IN  [name \in DOMAIN next \cup DOMAIN entries |->
            IF name \in DOMAIN entries
            THEN [door |-> doorOf(entries[name]), cycle |-> cycleOf(entries[name])]
            ELSE next[name]]

normalizeCells(incoming) ==
    LET next == createDefaultState
        entries == IF Truthy(incoming) THEN Entries(incoming) ELSE NoFields
        assigned == {name \in DOMAIN entries : includes(CELL_NAMES, name)}
    IN  [name \in DOMAIN next \cup assigned |->
            IF name \in assigned
            THEN [door |-> doorOf(entries[name]), cycle |-> cycleOf(entries[name])]
            ELSE next[name]]

\* Mutant of applyState: the payload is merged into the previous snapshot.
applyState_merge(incoming, raw) ==
    /\ cells' = [name \in DOMAIN cells |->
                    IF Truthy(incoming) /\ name \in DOMAIN Entries(incoming)
                    THEN normalizeCells(incoming)[name]
                    ELSE cells[name]]
    /\ rawMessage' = Coalesce(raw)

\* Mutant of applyState: an absent raw leaves the previous message in place.
applyState_keepRaw(incoming, raw) ==
    /\ cells' = normalizeCells(incoming)
    /\ rawMessage' = IF raw.t \in {"undefined", "null"} THEN rawMessage ELSE raw

\* Mutant of applyState: a payload without cells is skipped.
applyState_skipMissing(incoming, raw) ==
    IF incoming.t = "undefined"
    THEN UNCHANGED <<cells, rawMessage>>
    ELSE /\ cells' = normalizeCells(incoming)
         /\ rawMessage' = Coalesce(raw)

applyState(incoming, raw) ==
    /\ cells' = normalizeCells(incoming)
    /\ rawMessage' = Coalesce(raw)

(***************************************************************************)
(* What the backend and the network can deliver.                           *)
(***************************************************************************)
\* JSON.parse(text) / r.json(): either throws (rejects) or yields a value
Unparsable == [ok |-> FALSE]
Parsed(x) == [ok |-> TRUE, val |-> x]

Cell(door, cycle) == Obj("door" :> door @@ "cycle" :> cycle)

\* Scenario A of the spec: one known cell
CellsA == Obj("Door_1" :> Cell(Str("open"), Str("returned")))
\* a known cell and a key outside CELL_NAMES
CellsForeign == Obj("Door_2" :> Cell(Str("closed"), Str("taken"))
                    @@ "Camera_1" :> Cell(Str("open"), Str("taken")))
\* values outside the enums, and a well-formed cell
CellsOdd == Obj("Door_1" :> Cell(Str("OPEN"), Num(42))
                @@ "Door_3" :> Cell(Str("closed"), Str("returned")))
CellsEmpty == Obj(NoFields)

StateFrame(data) == Parsed(Obj("type" :> Str("state") @@ "data" :> data))

Frames ==
    { Unparsable,
      Parsed(Obj("type" :> Str("ping"))),
      StateFrame(Obj(NoFields)),
      StateFrame(Obj("cells" :> CellsA @@ "raw" :> Str("sensor-ok"))),
      StateFrame(Obj("cells" :> CellsForeign @@ "raw" :> Null)),
      StateFrame(Obj("cells" :> CellsForeign)) }

\* fetch() rejects on a network error and resolves on any HTTP status
NetworkError == [kind |-> "networkError"]
Response(status, body) == [kind |-> "response", status |-> status, body |-> body]

Responses ==
    { NetworkError,
      Response(200, Unparsable),
      Response(200, Parsed(Obj("cells" :> CellsEmpty))),
      Response(200, Parsed(Obj("cells" :> CellsA))),
      Response(200, Parsed(Obj("cells" :> CellsOdd))),
      Response(500, Unparsable),
      Response(500, Parsed(Obj("cells" :> CellsA))) }

(***************************************************************************)
(* The state after the first render: loggedIn is true and both effects     *)
(* have run once (connect(), fetchState(), setInterval).                   *)
(***************************************************************************)
NewSocket(s) == [sess |-> s, readyState |-> "CONNECTING"]
NewRequest(s) == [sess |-> s, overtaken |-> FALSE]

Init ==
    /\ loggedIn = TRUE
    /\ cells = createDefaultState
    /\ rawMessage = Null
    /\ reconnectRef = 0
    /\ pollRef = 1
    /\ session = 1
    /\ isMounted = [s \in Sessions |-> s = 1]
    /\ socket = [s \in Sessions |-> IF s = 1 THEN 1 ELSE 0]
    /\ sockets = <<NewSocket(1)>>
    /\ timers = {}
    /\ intervals = {1}
    /\ inflight = <<NewRequest(1)>>
    /\ lastEvent = [kind |-> "mount"]

(***************************************************************************)
(* Helpers of the handlers.                                                *)
(***************************************************************************)
\* socket?.close(): a socket that is connecting or open starts closing
close(socks, i) ==
    IF i # 0 /\ socks[i].readyState \in {"CONNECTING", "OPEN"}
    THEN [socks EXCEPT ![i].readyState = "CLOSING"]
    ELSE socks

\* if (ref.current) clearTimeout(ref.current) / clearInterval(ref.current)
clear(handles, ref) == IF ref # 0 THEN handles \ {ref} ELSE handles

\* connect() in the closure of run s: socket = new WebSocket(WS_URL)
connect(s) ==
    /\ sockets' = Append(sockets, NewSocket(s))
    /\ socket' = [socket EXCEPT ![s] = Len(sockets) + 1]

\* fetchState(): issue GET /state; the continuation runs in FetchSettles
fetchState(s) == inflight' = Append(inflight, NewRequest(s))

Remove(seq, k) == [i \in 1..(Len(seq) - 1) |-> IF i < k THEN seq[i] ELSE seq[i + 1]]

\* history: whether the Store held a snapshot and a message before the step
Before == [dirty |-> cells # createDefaultState, noted |-> rawMessage # Null]

\* history: a push snapshot was applied while these requests were outstanding
Overtake(reqs) == [i \in DOMAIN reqs |-> [reqs[i] EXCEPT !.overtaken = TRUE]]

(***************************************************************************)
(* Session Gate: setLoggedIn, and the effects React re-runs on the change  *)
(* (cleanups of the previous run first, then the effect bodies).           *)
(***************************************************************************)
\* Mutant of Logout: the Store is frozen, not wiped.
Logout_frozen ==
    /\ loggedIn
    /\ loggedIn' = FALSE
    /\ isMounted' = [isMounted EXCEPT ![session] = FALSE]
    /\ timers' = clear(timers, reconnectRef)
    /\ sockets' = close(sockets, socket[session])
    /\ intervals' = clear(intervals, pollRef)
    /\ UNCHANGED <<cells, rawMessage>>
    /\ lastEvent' = [kind |-> "logout", before |-> Before]
    /\ UNCHANGED <<reconnectRef, pollRef, session, socket, inflight>>

\* Mutant of Logout: the cleanup leaves the reconnect timeout pending.
Logout_keepTimer ==
    /\ loggedIn
    /\ loggedIn' = FALSE
    /\ isMounted' = [isMounted EXCEPT ![session] = FALSE]
    /\ timers' = timers
    /\ sockets' = close(sockets, socket[session])
    /\ intervals' = clear(intervals, pollRef)
    /\ cells' = createDefaultState
    /\ rawMessage' = Null
    /\ lastEvent' = [kind |-> "logout", before |-> Before]
    /\ UNCHANGED <<reconnectRef, pollRef, session, socket, inflight>>

\* setLoggedIn(false)
Logout ==
    /\ loggedIn
    /\ loggedIn' = FALSE
    \* cleanup of the push effect
    /\ isMounted' = [isMounted EXCEPT ![session] = FALSE]
    /\ timers' = clear(timers, reconnectRef)
    /\ sockets' = close(sockets, socket[session])
    \* cleanup of the poll effect, and its body with loggedIn false
    /\ intervals' = clear(intervals, pollRef)
    \* body of the push effect with loggedIn false
    /\ cells' = createDefaultState
    /\ rawMessage' = Null
    /\ lastEvent' = [kind |-> "logout", before |-> Before]
    /\ UNCHANGED <<reconnectRef, pollRef, session, socket, inflight>>

\* Mutant of Login: the poll effect only sets the interval, without fetchState().
Login_noBootstrap ==
    /\ ~loggedIn
    /\ session < MaxSessions
    /\ Len(sockets) < MaxSockets
    /\ Len(inflight) < MaxInFlight
    /\ loggedIn' = TRUE
    /\ session' = session + 1
    /\ isMounted' = [isMounted EXCEPT ![session + 1] = TRUE]
    /\ connect(session + 1)
    /\ pollRef' = session + 1
    /\ intervals' = intervals \cup {session + 1}
    /\ lastEvent' = [kind |-> "login"]
    /\ UNCHANGED <<cells, rawMessage, reconnectRef, timers, inflight>>

\* setLoggedIn(true): a new run of both effects
Login ==
    /\ ~loggedIn
    /\ session < MaxSessions
    /\ Len(sockets) < MaxSockets
    /\ Len(inflight) < MaxInFlight
    /\ loggedIn' = TRUE
    /\ session' = session + 1
    /\ isMounted' = [isMounted EXCEPT ![session + 1] = TRUE]
    /\ connect(session + 1)
    /\ fetchState(session + 1)
    /\ pollRef' = session + 1
    /\ intervals' = intervals \cup {session + 1}
    /\ lastEvent' = [kind |-> "login"]
    /\ UNCHANGED <<cells, rawMessage, reconnectRef, timers>>

(***************************************************************************)
(* Push channel: the events of a WebSocket and the handlers connect() set. *)
(* A frame is also delivered to a socket that is closing, so that the      *)
(* handlers' own guard is what keeps a torn-down connection silent.        *)
(***************************************************************************)
\* the connection is established (no onopen handler)
SocketOpened(i) ==
    /\ sockets[i].readyState = "CONNECTING"
    /\ sockets' = [sockets EXCEPT ![i].readyState = "OPEN"]
    /\ lastEvent' = [kind |-> "open"]
    /\ UNCHANGED <<loggedIn, cells, rawMessage, reconnectRef, pollRef, session,
                   isMounted, socket, timers, intervals, inflight>>

\* Mutant of IsStateEnvelope: the type of the message is not tested.
IsStateEnvelope_anyType(frame) ==
    /\ frame.ok
    /\ Truthy(OptGet(frame.val, "data"))

\* msg?.type === 'state' && msg?.data
IsStateEnvelope(frame) ==
    /\ frame.ok
    /\ IsStr(OptGet(frame.val, "type"), "state")
    /\ Truthy(OptGet(frame.val, "data"))

\* Mutant of onmessage: the isMounted test is missing.
onmessage_unguarded(i, frame) ==
    /\ sockets[i].readyState \in {"OPEN", "CLOSING"}
    /\ IF IsStateEnvelope(frame)
       THEN /\ applyState(Get(Get(frame.val, "data"), "cells"),
                          Get(Get(frame.val, "data"), "raw"))
            /\ inflight' = Overtake(inflight)
       ELSE UNCHANGED <<cells, rawMessage, inflight>>
    /\ lastEvent' = [kind |-> "message", sess |-> sockets[i].sess, frame |-> frame,
                     before |-> Before]
    /\ UNCHANGED <<loggedIn, reconnectRef, pollRef, session, isMounted, socket,
                   sockets, timers, intervals>>

\* socket.onmessage
onmessage(i, frame) ==
    /\ sockets[i].readyState \in {"OPEN", "CLOSING"}
    /\ IF IsStateEnvelope(frame) /\ isMounted[sockets[i].sess]
       THEN /\ applyState(Get(Get(frame.val, "data"), "cells"),
                          Get(Get(frame.val, "data"), "raw"))
            /\ inflight' = Overtake(inflight)
       ELSE UNCHANGED <<cells, rawMessage, inflight>>
    /\ lastEvent' = [kind |-> "message", sess |-> sockets[i].sess, frame |-> frame,
                     before |-> Before]
    /\ UNCHANGED <<loggedIn, reconnectRef, pollRef, session, isMounted, socket,
                   sockets, timers, intervals>>

\* Mutant of onclose: every close re-arms a timeout, with no isMounted test and
\* no clearTimeout of the previous one.
onclose_rearm(i) ==
    /\ sockets[i].readyState # "CLOSED"
    /\ sockets' = [sockets EXCEPT ![i].readyState = "CLOSED"]
    /\ timers' = timers \cup {i}
    /\ reconnectRef' = i
    /\ lastEvent' = [kind |-> "close", sess |-> sockets[i].sess]
    /\ UNCHANGED <<loggedIn, cells, rawMessage, pollRef, session, isMounted,
                   socket, intervals, inflight>>

\* Mutant of onclose: the isMounted test is inverted.
onclose_inverted(i) ==
    /\ sockets[i].readyState # "CLOSED"
    /\ sockets' = [sockets EXCEPT ![i].readyState = "CLOSED"]
    /\ IF isMounted[sockets[i].sess]
       THEN UNCHANGED <<reconnectRef, timers>>
       ELSE /\ timers' = clear(timers, reconnectRef) \cup {i}
            /\ reconnectRef' = i
    /\ lastEvent' = [kind |-> "close", sess |-> sockets[i].sess]
    /\ UNCHANGED <<loggedIn, cells, rawMessage, pollRef, session, isMounted,
                   socket, intervals, inflight>>

\* socket.onclose: the close event of socket i; its timeout takes i as handle
\* (a socket closes once, so the handle is fresh)
onclose(i) ==
    /\ sockets[i].readyState # "CLOSED"
    /\ sockets' = [sockets EXCEPT ![i].readyState = "CLOSED"]
    /\ IF ~isMounted[sockets[i].sess]
       THEN UNCHANGED <<reconnectRef, timers>>
       ELSE /\ timers' = clear(timers, reconnectRef) \cup {i}
            /\ reconnectRef' = i
    /\ lastEvent' = [kind |-> "close", sess |-> sockets[i].sess]
    /\ UNCHANGED <<loggedIn, cells, rawMessage, pollRef, session, isMounted,
                   socket, intervals, inflight>>

\* socket.onerror: closes the socket variable of the closure
onerror(i) ==
    /\ sockets[i].readyState # "CLOSED"
    /\ sockets' = close(sockets, socket[sockets[i].sess])
    /\ lastEvent' = [kind |-> "error", sess |-> sockets[i].sess]
    /\ UNCHANGED <<loggedIn, cells, rawMessage, reconnectRef, pollRef, session,
                   isMounted, socket, timers, intervals, inflight>>

\* Mutant of ReconnectTimerFires: the timer repeats (setInterval for setTimeout).
ReconnectTimerFires_repeating(h) ==
    /\ h \in timers
    /\ Len(sockets) < MaxSockets
    /\ timers' = timers
    /\ connect(sockets[h].sess)
    /\ lastEvent' = [kind |-> "timer", sess |-> sockets[h].sess]
    /\ UNCHANGED <<loggedIn, cells, rawMessage, reconnectRef, pollRef, session,
                   isMounted, intervals, inflight>>

\* the timeout set by onclose of socket h fires: connect()
ReconnectTimerFires(h) ==
    /\ h \in timers
    /\ Len(sockets) < MaxSockets
    /\ timers' = timers \ {h}
    /\ connect(sockets[h].sess)
    /\ lastEvent' = [kind |-> "timer", sess |-> sockets[h].sess]
    /\ UNCHANGED <<loggedIn, cells, rawMessage, reconnectRef, pollRef, session,
                   isMounted, intervals, inflight>>

(***************************************************************************)
(* Poll channel.                                                           *)
(***************************************************************************)
\* the interval fires: fetchState()
PollIntervalFires(h) ==
    /\ h \in intervals
    /\ Len(inflight) < MaxInFlight
    /\ fetchState(session)
    /\ lastEvent' = [kind |-> "tick"]
    /\ UNCHANGED <<loggedIn, cells, rawMessage, reconnectRef, pollRef, session,
                   isMounted, socket, sockets, timers, intervals>>

\* Mutant of FetchSettles: a response overtaken by a push snapshot is dropped.
FetchSettles_ordered(k, resp) ==
    /\ k \in DOMAIN inflight
    /\ inflight' = Remove(inflight, k)
    /\ IF resp.kind = "response" /\ resp.body.ok /\ ~inflight[k].overtaken
       THEN applyState(OptGet(resp.body.val, "cells"), Null)
       ELSE UNCHANGED <<cells, rawMessage>>
    /\ lastEvent' = [kind |-> "settle", req |-> inflight[k], resp |-> resp,
                     before |-> Before]
    /\ UNCHANGED <<loggedIn, reconnectRef, pollRef, session, isMounted, socket,
                   sockets, timers, intervals>>

\* the fetch of request k settles: .then(r => r.json()).then(data => ...).catch()
FetchSettles(k, resp) ==
    /\ k \in DOMAIN inflight
    /\ inflight' = Remove(inflight, k)
    /\ IF resp.kind = "response" /\ resp.body.ok
       THEN applyState(OptGet(resp.body.val, "cells"), Null)
       ELSE UNCHANGED <<cells, rawMessage>>
    /\ lastEvent' = [kind |-> "settle", req |-> inflight[k], resp |-> resp,
                     before |-> Before]
    /\ UNCHANGED <<loggedIn, reconnectRef, pollRef, session, isMounted, socket,
                   sockets, timers, intervals>>

Next ==
    \/ Logout
    \/ Login
    \/ \E i \in DOMAIN sockets : SocketOpened(i)
    \/ \E i \in DOMAIN sockets : \E frame \in Frames : onmessage(i, frame)
    \/ \E i \in DOMAIN sockets : onclose(i)
    \/ \E i \in DOMAIN sockets : onerror(i)
    \/ \E h \in timers : ReconnectTimerFires(h)
    \/ \E h \in intervals : PollIntervalFires(h)
    \/ \E k \in DOMAIN inflight : \E resp \in Responses : FetchSettles(k, resp)

Spec == Init /\ [][Next]_vars

(***************************************************************************)
(* Vocabulary of the properties.                                           *)
(***************************************************************************)
KnownNames == {"Door_1", "Door_2", "Door_3", "Door_4", "Door_5", "Door_6",
               "Door_7", "Door_8", "Door_9", "Door_10", "Door_11", "Door_12"}
UnknownStatus == [door |-> "unknown", cycle |-> "unknown"]
AllUnknown == DOMAIN cells = KnownNames /\ \A name \in KnownNames : cells[name] = UnknownStatus

\* the last step was a frame handled by onmessage / a fetch that settled
IsMessage == lastEvent.kind = "message"
IsSettle == lastEvent.kind = "settle"

\* the data of a frame of type "state", and its cells and raw
FrameData == Get(lastEvent.frame.val, "data")
\* a frame of the documented shape {type: "state", data: {cells: {...}, raw?}}
ValidEnvelope ==
    /\ IsMessage
    /\ IsStateEnvelope(lastEvent.frame)
    /\ Get(FrameData, "cells").t = "object"
\* a valid envelope that arrived on the connection of a live run of the effect
AcceptedPush == ValidEnvelope /\ isMounted[lastEvent.sess]

\* the three kinds of poll failure, and success
PollFailure(resp) ==
    \/ resp.kind = "networkError"
    \/ resp.kind = "response" /\ resp.status # 200
    \/ resp.kind = "response" /\ ~resp.body.ok
PollSuccess == IsSettle /\ ~PollFailure(lastEvent.resp)
PollCells == OptGet(lastEvent.resp.body.val, "cells")

\* the status the claims expect of one cell, from its entry in the payload alone
Expected(payload, name) ==
    IF payload.t = "object" /\ name \in DOMAIN payload.f
    THEN [door |-> doorOf(payload.f[name]), cycle |-> cycleOf(payload.f[name])]
    ELSE UnknownStatus

(***************************************************************************)
(* C1: a poll response that resolves successfully while the session is     *)
(* inactive does not mutate the Store: it stays the all-unknown default    *)
(* with a null Diagnostic.  The continuation of fetchState has no liveness *)
(* test, so this is violated.                                              *)
(***************************************************************************)
C1_LateResponseIgnored ==
    (PollSuccess /\ ~loggedIn) => (AllUnknown /\ rawMessage = Null)

(***************************************************************************)
(* C2: in a session entered by re-activation, no callback of an earlier    *)
(* session (a poll response of an earlier request, a frame, close or error *)
(* of an earlier connection, an earlier reconnect timer) changes the Store *)
(* or the reconnect timer.  Violated by a poll response of an earlier      *)
(* request.                                                                *)
(***************************************************************************)
FromEarlierSession ==
    \/ lastEvent.kind \in {"message", "close", "error", "timer"} /\ lastEvent.sess < session
    \/ IsSettle /\ lastEvent.req.sess < session

C2_NoCallbackOfEarlierSession ==
    [][(loggedIn' /\ FromEarlierSession')
         => UNCHANGED <<cells, rawMessage, timers, reconnectRef>>]_vars

(***************************************************************************)
(* C3: the transition to inactive leaves the Store equal to the            *)
(* all-unknown default with a null Diagnostic, whatever it held before.    *)
(***************************************************************************)
C3_LogoutWipesStore ==
    lastEvent.kind = "logout" => (~loggedIn /\ AllUnknown /\ rawMessage = Null)

C3_Witness ==
    /\ lastEvent.kind = "logout"
    /\ lastEvent.before.dirty
    /\ lastEvent.before.noted

(***************************************************************************)
(* C4: a frame or a close event on a connection whose run of the push      *)
(* effect has been cleaned up changes neither the Store nor the            *)
(* Diagnostic, schedules no reconnect timer and opens no connection.       *)
(***************************************************************************)
TornDownCallback ==
    /\ lastEvent.kind \in {"message", "close"}
    /\ ~isMounted[lastEvent.sess]

C4_TornDownConnectionSilent ==
    [][TornDownCallback'
         => (UNCHANGED <<cells, rawMessage, timers, reconnectRef>>
             /\ Len(sockets') = Len(sockets))]_vars

\* a well-formed state envelope arrived on a torn-down connection
C4_Witness ==
    /\ ValidEnvelope
    /\ ~isMounted[lastEvent.sess]
    /\ Get(FrameData, "raw") = Str("sensor-ok")
    /\ rawMessage = Null

(***************************************************************************)
(* C5: a poll failure (network error, non-success status, malformed body)  *)
(* leaves Store and Diagnostic as they were.  fetchState never looks at    *)
(* the status, so a non-success response with a JSON body is applied.      *)
(***************************************************************************)
C5_PollFailureLeavesStore ==
    [][(IsSettle' /\ PollFailure(lastEvent'.resp)) => UNCHANGED <<cells, rawMessage>>]_vars

(***************************************************************************)
(* C6: an accepted update replaces the snapshot wholesale: the Store is    *)
(* the normalisation of that payload alone, and every identifier absent    *)
(* from the payload is {unknown, unknown}.                                 *)
(***************************************************************************)
ReplacedBy(payload) ==
    /\ DOMAIN cells = KnownNames
    /\ \A name \in KnownNames : cells[name] = Expected(payload, name)

C6_ReplaceIsWholesale ==
    /\ AcceptedPush => ReplacedBy(Get(FrameData, "cells"))
    /\ PollSuccess => ReplacedBy(PollCells)

\* Scenario B: a poll body {"cells": {}} arrives over a snapshot that had cells set
C6_Witness ==
    /\ PollSuccess
    /\ PollCells = CellsEmpty
    /\ lastEvent.before.dirty
    /\ AllUnknown

(***************************************************************************)
(* C7: the Diagnostic belongs to the snapshot applied last: the raw string *)
(* of an accepted push frame (null when raw is absent or null), and null   *)
(* after a successful poll.                                                *)
(***************************************************************************)
C7_DiagnosticOfLastSnapshot ==
    /\ AcceptedPush =>
          rawMessage = (IF Get(FrameData, "raw").t = "string"
                        THEN Get(FrameData, "raw") ELSE Null)
    /\ PollSuccess => rawMessage = Null

\* a frame without raw arrives while an earlier message is displayed
C7_Witness ==
    /\ AcceptedPush
    /\ Get(FrameData, "raw") = Undefined
    /\ lastEvent.before.noted
    /\ rawMessage = Null

(***************************************************************************)
(* C8: no ordering between the channels: a successful poll response is     *)
(* applied also when a push snapshot was applied after its request was     *)
(* issued, so the older poll snapshot ends up in the Store.                *)
(***************************************************************************)
C8_LastWriteWins ==
    (PollSuccess /\ lastEvent.req.overtaken) => ReplacedBy(PollCells)

\* request issued, push frame "sensor-ok" applied and still in the Store, then
\* the response of that request replaces it in the same session
C8_Witness ==
    /\ PollSuccess
    /\ loggedIn
    /\ lastEvent.req.sess = session
    /\ lastEvent.req.overtaken
    /\ lastEvent.before.noted
    /\ PollCells = CellsOdd
    /\ cells["Door_1"] = UnknownStatus
    /\ rawMessage = Null

(***************************************************************************)
(* C9: in every reachable state the Store is total and well-typed: its     *)
(* keys are exactly the known identifiers, every door is open, closed or   *)
(* unknown and every cycle is taken, returned or unknown.                  *)
(***************************************************************************)
C9_StoreTotalAndTyped ==
    /\ DOMAIN cells = KnownNames
    /\ \A name \in KnownNames :
          /\ DOMAIN cells[name] = {"door", "cycle"}
          /\ cells[name].door \in {"open", "closed", "unknown"}
          /\ cells[name].cycle \in {"taken", "returned", "unknown"}

\* a payload with a foreign key and without most known keys was applied
C9_Witness ==
    /\ AcceptedPush
    /\ Get(FrameData, "cells") = CellsForeign
    /\ "Camera_1" \notin DOMAIN cells
    /\ cells["Door_2"] = [door |-> "closed", cycle |-> "taken"]
    /\ cells["Door_1"] = UnknownStatus

(***************************************************************************)
(* normalizeCells on its own: the initial state draws a payload, the one   *)
(* action normalises it into the Store.                                    *)
(***************************************************************************)
Absent == [t |-> "absent"]
Field(k, v) == IF v = Absent THEN NoFields ELSE k :> v

DoorValues == {Str("open"), Str("closed"), Str(""), Str("OPEN"), Str(" open "),
               Num(42), Null, Absent}
CycleValues == {Str("taken"), Str("returned"), Str("Taken"), Str("returned "),
                Num(0), Null, Absent}
\* structured cells {door?, cycle?} and bare values
StructuredValues == {Obj(Field("door", d) @@ Field("cycle", c)) : d \in DoorValues, c \in CycleValues}
BareValues == {Str("open"), Str("closed"), Num(42), Null}

NormInputs ==
    {Undefined, Null, Num(7)} \cup
    { Obj(Field("Door_1", v1) @@ Field("Door_2", v2) @@ Field("Camera_1", v3)) :
        v1 \in StructuredValues \cup BareValues \cup {Absent},
        v2 \in {Absent, Cell(Str("closed"), Str("taken")), Cell(Str("OPEN"), Null)},
        v3 \in {Absent, Cell(Str("open"), Str("taken"))} }

NormInit ==
    /\ loggedIn = TRUE
    /\ cells = createDefaultState
    /\ rawMessage = Null
    /\ reconnectRef = 0
    /\ pollRef = 1
    /\ session = 1
    /\ isMounted = [s \in Sessions |-> s = 1]
    /\ socket = [s \in Sessions |-> IF s = 1 THEN 1 ELSE 0]
    /\ sockets = <<NewSocket(1)>>
    /\ timers = {}
    /\ intervals = {1}
    /\ inflight = <<NewRequest(1)>>
    /\ \E incoming \in NormInputs : lastEvent = [kind |-> "input", incoming |-> incoming]

\* setCells(normalizeCells(incoming))
Normalize ==
    /\ lastEvent.kind = "input"
    /\ cells' = normalizeCells(lastEvent.incoming)
    /\ lastEvent' = [kind |-> "normalized", incoming |-> lastEvent.incoming]
    /\ UNCHANGED <<loggedIn, rawMessage, reconnectRef, pollRef, session, isMounted,
                   socket, sockets, timers, intervals, inflight>>

NormNext == Normalize

NormSpec == NormInit /\ [][NormNext]_vars

\* the entry of a name in the normalised payload, and a field of a structured entry
IsNormalized == lastEvent.kind = "normalized"
EntryOf(name) ==
    IF lastEvent.incoming.t = "object" /\ name \in DOMAIN lastEvent.incoming.f
    THEN lastEvent.incoming.f[name]
    ELSE Absent
FieldOf(name, k) ==
    IF EntryOf(name).t = "object" /\ k \in DOMAIN EntryOf(name).f
    THEN EntryOf(name).f[k]
    ELSE Absent

IsBare(v) == v.t \in {"string", "number", "null"}
Structured(name, door, cycle) ==
    FieldOf(name, "door") = Str(door) /\ FieldOf(name, "cycle") = Str(cycle)

StructuredYieldsBoth ==
    \A name \in KnownNames :
        \A door \in {"open", "closed"} : \A cycle \in {"taken", "returned"} :
            Structured(name, door, cycle) => cells[name] = [door |-> door, cycle |-> cycle]

DoorStatus == {"open", "closed", "unknown"}
CycleStatus == {"taken", "returned", "unknown"}
CellStatus == [door : DoorStatus, cycle : CycleStatus]

\* Snapshots in which the first two cells and the last one vary
Snapshots ==
    { [name \in KnownNames |->
          CASE name = "Door_1" -> s1
            [] name = "Door_2" -> s2
            [] name = "Door_12" -> [door |-> d12, cycle |-> "unknown"]
            [] OTHER -> UnknownStatus] :
        s1 \in CellStatus, s2 \in CellStatus, d12 \in DoorStatus }

\* a CellMap as the JavaScript object it is: {name: {door: "...", cycle: "..."}}
snapshot_as_map(s) ==
    Obj([name \in DOMAIN s |-> Cell(Str(s[name].door), Str(s[name].cycle))])

IdemInputs == {snapshot_as_map(s) : s \in Snapshots} \cup NormInputs

IdemInit ==
    /\ loggedIn = TRUE
    /\ cells = createDefaultState
    /\ rawMessage = Null
    /\ reconnectRef = 0
    /\ pollRef = 1
    /\ session = 1
    /\ isMounted = [s \in Sessions |-> s = 1]
    /\ socket = [s \in Sessions |-> IF s = 1 THEN 1 ELSE 0]
    /\ sockets = <<NewSocket(1)>>
    /\ timers = {}
    /\ intervals = {1}
    /\ inflight = <<NewRequest(1)>>
    /\ \E incoming \in IdemInputs : lastEvent = [kind |-> "input", incoming |-> incoming]

\* setCells(normalizeCells(cells))
Renormalize ==
    /\ lastEvent.kind = "normalized"
    /\ cells' = normalizeCells(snapshot_as_map(cells))
    /\ lastEvent' = [kind |-> "renormalized", incoming |-> lastEvent.incoming,
                     first |-> cells]
    /\ UNCHANGED <<loggedIn, rawMessage, reconnectRef, pollRef, session, isMounted,
                   socket, sockets, timers, intervals, inflight>>

IdemNext ==
    \/ Normalize
    \/ Renormalize

IdemSpec == IdemInit /\ [][IdemNext]_vars

(***************************************************************************)
(* C12: normalize is idempotent on canonical input: normalising the map of *)
(* a Snapshot s gives s, and normalising the map of a normalised payload   *)
(* gives the same snapshot again.                                          *)
(***************************************************************************)
C12_IdempotentOnCanonical ==
    /\ IsNormalized =>
          \A s \in Snapshots : lastEvent.incoming = snapshot_as_map(s) => cells = s
    /\ lastEvent.kind = "renormalized" => cells = lastEvent.first

\* a snapshot with both components set came back unchanged from its own map
C12_Witness ==
    /\ lastEvent.kind = "renormalized"
    /\ lastEvent.incoming \in {snapshot_as_map(s) : s \in Snapshots}
    /\ cells["Door_1"] = [door |-> "open", cycle |-> "taken"]
    /\ cells["Door_2"] = [door |-> "unknown", cycle |-> "returned"]
    /\ cells["Door_12"].door = "closed"

(***************************************************************************)
(* C13: while the push channel is active each close event schedules        *)
(* exactly one reconnection attempt (the timeout of the socket that        *)
(* closed), and at no time is more than one reconnect timer pending.       *)
(***************************************************************************)
C13_OneReconnectTimer ==
    /\ Cardinality(timers) <= 1
    /\ (lastEvent.kind = "close" /\ isMounted[lastEvent.sess]) =>
          /\ reconnectRef # 0
          /\ timers = {reconnectRef}
          /\ sockets[reconnectRef] = [sess |-> lastEvent.sess, readyState |-> "CLOSED"]

\* the connection made by a retry closed in turn: again one timer
C13_Witness ==
    /\ lastEvent.kind = "close"
    /\ isMounted[lastEvent.sess]
    /\ reconnectRef = 2
    /\ sockets[1] = [sess |-> lastEvent.sess, readyState |-> "CLOSED"]
    /\ timers = {2}

(***************************************************************************)
(* C17: every activation issues one request at once and arms the interval; *)
(* every tick of the interval issues one request, and only while the       *)
(* session is active; an activation after a deactivation again starts with *)
(* a request of its own.                                                   *)
(***************************************************************************)
IssuedOne == inflight' = Append(inflight, [sess |-> session', overtaken |-> FALSE])

C17_PollOnActivationAndTick ==
    [][/\ lastEvent'.kind = "login" =>
            (IssuedOne /\ loggedIn' /\ pollRef' = session' /\ intervals' = {pollRef'})
       /\ lastEvent'.kind = "tick" => (IssuedOne /\ loggedIn /\ loggedIn')
       /\ loggedIn' => pollRef' \in intervals']_vars

\* the second activation has issued its own request and armed its own interval
C17_Witness ==
    /\ lastEvent.kind = "login"
    /\ session = 2
    /\ inflight # <<>>
    /\ inflight[Len(inflight)] = [sess |-> 2, overtaken |-> FALSE]
    /\ intervals = {2}

(***************************************************************************)
(* C18: whenever the session is inactive no poll interval and no reconnect *)
(* timer is pending and no connection is open or connecting, and no poll   *)
(* request or connection attempt is initiated while inactive.              *)
(***************************************************************************)
Live(i) == sockets[i].readyState \in {"CONNECTING", "OPEN"}

C18_QuietWhileInactive ==
    /\ ~loggedIn =>
          /\ timers = {}
          /\ intervals = {}
          /\ \A i \in DOMAIN sockets : ~Live(i)
    /\ lastEvent.kind \in {"tick", "timer"} => loggedIn

\* deactivation while retrying: the socket variable is still the closed socket
\* whose timeout was pending
C18_Witness ==
    /\ lastEvent.kind = "logout"
    /\ reconnectRef # 0
    /\ socket[session] = reconnectRef
    /\ sockets[reconnectRef].readyState = "CLOSED"
    /\ timers = {}

(***************************************************************************)
(* C19: while the session is active at most one connection is open or      *)
(* connecting, and a reconnect timer is pending only while none is; a      *)
(* connection is created only by an activation or by the reconnect timer,  *)
(* and the timer is armed only by the close of the current connection.     *)
(***************************************************************************)
C19_SingleConnection ==
    [][/\ loggedIn' => Cardinality({i \in DOMAIN sockets' : Live(i)'}) <= 1
       /\ timers' # {} => \A i \in DOMAIN sockets' : ~Live(i)'
       /\ Len(sockets') # Len(sockets) =>
             (lastEvent'.kind \in {"login", "timer"} /\ Len(sockets') = Len(sockets) + 1)
       /\ ~(timers' \subseteq timers) =>
             (lastEvent'.kind = "close" /\ timers' = {socket[session]})]_vars

\* the current connection closed and its timer is pending, the only one
C19_Witness ==
    /\ loggedIn
    /\ lastEvent.kind = "close"
    /\ timers = {socket[session]}
    /\ \A i \in DOMAIN sockets : ~Live(i)

(***************************************************************************)
(* Scheduling: a pending timeout fires, and a socket on which close() was  *)
(* called gets its close event.  A remote close is never forced.           *)
(***************************************************************************)
TimerFires == \E h \in timers : ReconnectTimerFires(h)
ClosingCloses == \E i \in DOMAIN sockets : sockets[i].readyState = "CLOSING" /\ onclose(i)

LiveSpec == Init /\ [][Next]_vars /\ WF_vars(TimerFires) /\ WF_vars(ClosingCloses)

(***************************************************************************)
(* C14: as long as the session stays active, every disconnect of the       *)
(* current connection (closed, or closing after an error) is eventually    *)
(* followed by a new connection attempt, whatever the number of earlier    *)
(* attempts, up to the MaxSockets sockets of the model.                    *)
(***************************************************************************)
Disconnected == loggedIn /\ sockets[socket[session]].readyState \in {"CLOSING", "CLOSED"}
Attempting == loggedIn /\ Live(socket[session])

PushFrames ==
    Frames \cup
    { Parsed(Null),
      Parsed(Str("state")),
      Parsed(Obj("type" :> Str("state"))),
      Parsed(Obj("type" :> Str("STATE") @@ "data" :> Obj("cells" :> CellsA))),
      StateFrame(Null),
      StateFrame(Num(0)),
      StateFrame(Str("")),
      StateFrame(Num(1)),
      StateFrame(Str("cells")),
      StateFrame(Obj("raw" :> Str("sensor-ok"))) }

PushNext ==
    \/ Logout
    \/ Login
    \/ \E i \in DOMAIN sockets : SocketOpened(i)
    \/ \E i \in DOMAIN sockets : \E frame \in PushFrames : onmessage(i, frame)
    \/ \E i \in DOMAIN sockets : onclose(i)
    \/ \E i \in DOMAIN sockets : onerror(i)
    \/ \E h \in timers : ReconnectTimerFires(h)

PushSpec == Init /\ [][PushNext]_vars

TypeOf(frame) == IF frame.ok THEN OptGet(frame.val, "type") ELSE Undefined
DataOf(frame) == IF frame.ok THEN OptGet(frame.val, "data") ELSE Undefined

(***************************************************************************)
(* C15 as stated: a frame that fails to parse, or that parses but is not   *)
(* of the shape {type: "state", data: {...}}, changes nothing: Store,      *)
(* Diagnostic, connections and reconnect timer stay as they were.  A frame *)
(* of type "state" whose data is truthy but no object passes the test      *)
(* msg?.data and is applied as an empty payload.                           *)
(***************************************************************************)
HasEnvelopeShape(frame) ==
    /\ frame.ok
    /\ TypeOf(frame) = Str("state")
    /\ DataOf(frame).t = "object"

C15_NonEnvelopeDiscarded ==
    [][(IsMessage' /\ ~HasEnvelopeShape(lastEvent'.frame))
         => UNCHANGED <<cells, rawMessage, sockets, timers, reconnectRef>>]_vars

(***************************************************************************)
(* The part of C15 that holds: a frame that fails to parse, or whose type   *)
(* is not "state", or whose data is absent or falsy (null, 0, ""), changes *)
(* nothing.                                                                *)
(***************************************************************************)
Falsy == {Undefined, Null, Num(0), Str("")}
Discarded(frame) ==
    \/ ~frame.ok
    \/ TypeOf(frame) # Str("state")
    \/ DataOf(frame) \in Falsy

C15_MalformedDiscarded ==
    [][(IsMessage' /\ Discarded(lastEvent'.frame))
         => UNCHANGED <<cells, rawMessage, sockets, timers, reconnectRef>>]_vars

\* "not json" arrived on the open connection of the live run over a snapshot
C15_DiscardedReached ==
    /\ IsMessage
    /\ lastEvent.frame = Unparsable
    /\ isMounted[lastEvent.sess]
    /\ sockets[socket[lastEvent.sess]].readyState = "OPEN"
    /\ lastEvent.before.noted
    /\ rawMessage = Str("sensor-ok")
    /\ cells["Door_1"] = [door |-> "open", cycle |-> "returned"]
    /\ timers = {}

(***************************************************************************)
(* C16 as stated: a frame of type "state" whose data carries no cells map  *)
(* leaves Store and Diagnostic as they were.  onmessage passes the         *)
(* undefined cells on to applyState.                                       *)
(***************************************************************************)
NoCellsMap(frame) == HasEnvelopeShape(frame) /\ "cells" \notin DOMAIN DataOf(frame).f

C16_NoCellsIgnored ==
    [][(IsMessage' /\ NoCellsMap(lastEvent'.frame)) => UNCHANGED <<cells, rawMessage>>]_vars

(***************************************************************************)
(* C16 amended: on a live connection a frame of type "state" whose data    *)
(* carries no cells map is applied as an empty payload: the Store becomes  *)
(* the all-unknown default and the Diagnostic becomes data.raw (null when  *)
(* raw is absent).                                                         *)
(***************************************************************************)
C16_NoCellsResets ==
    (IsMessage /\ NoCellsMap(lastEvent.frame) /\ isMounted[lastEvent.sess]) =>
        /\ AllUnknown
        /\ rawMessage = (IF "raw" \in DOMAIN DataOf(lastEvent.frame).f
                            /\ DataOf(lastEvent.frame).f["raw"].t = "string"
                         THEN DataOf(lastEvent.frame).f["raw"]
                         ELSE Null)

\* data {raw: "sensor-ok"} arrived over a snapshot that had cells set
C16_Witness ==
    /\ IsMessage
    /\ lastEvent.frame = StateFrame(Obj("raw" :> Str("sensor-ok")))
    /\ isMounted[lastEvent.sess]
    /\ lastEvent.before.dirty
    /\ AllUnknown
    /\ rawMessage = Str("sensor-ok")
====
